---- MODULE Spec2Model ----
(***************************************************************************)
(* A model of src/main.go: the error registry (errNo, NewError), the       *)
(* apiError value type (Error, F, Wrap, Unwrap, Is), the classification of *)
(* an error at the API boundary (errors.As in respondWithError) and the    *)
(* request path API -> Service -> Database.                                *)
(*                                                                         *)
(* Strings are sequences of tokens: a token is a word, a single space      *)
(* " ", a colon ":" or a formatting verb "%s".  Concatenation of strings   *)
(* is \o.  "thing not found" is <<"thing", " ", "not", " ", "found">>.     *)
(*                                                                         *)
(* Error values are records tagged with their dynamic Go type.  Values of  *)
(* the pointer types of github.com/pkg/errors carry the address ptr they   *)
(* were allocated at, so that == on them is pointer equality.              *)
(***************************************************************************)
EXTENDS Integers, Sequences, FiniteSets, TLC

VARIABLES
    errNo,      \* var errNo uint64
    templates,  \* the apiError values returned by NewError, in return order
    err,        \* a variable of type error
    heap,       \* next free address for a pkg/errors allocation
    last,       \* the last call made: [op, a, b, out, recv]
    pc,         \* concurrent NewError: position of each thread
    local       \* concurrent NewError: each thread's local variable err

vars == <<errNo, templates, err, heap, last, pc, local>>

----------------------------------------------------------------------------
(* Bounds *)

MaxTemplates == 4   \* NewError is called at most this many times
MaxDepth == 2       \* an error chain holds at most this many wrapping layers
MaxHeap == 1        \* errors.Wrap is called at most this many times
NumThreads == 2     \* threads calling NewError concurrently
MaxNegId == 1       \* request ids range over -MaxNegId .. MaxId
MaxId == 10

----------------------------------------------------------------------------
(* net/http status codes used by the program *)

StatusNotFound == 404
StatusBadRequest == 400

----------------------------------------------------------------------------
(* Error values *)

Nil == [type |-> "nil"]

\* type apiError struct { Code; Message; errno; err }
apiError(code, message, errno, cause) ==
    [type |-> "apiError", Code |-> code, Message |-> message,
     errno |-> errno, err |-> cause]

\* var apiErr apiError: the zero value
ZeroApiError == apiError(0, <<>>, 0, Nil)

\* errors.New(text) of pkg/errors: a *fundamental allocated at address p
fundamental(msg, p) == [type |-> "*fundamental", msg |-> msg, ptr |-> p]

\* errors.Wrap(e, msg) of pkg/errors: &withStack{&withMessage{cause: e, msg}}
\* allocated at address p; errors.Wrap(nil, msg) is nil
ErrorsWrap(e, msg, p) ==
    IF e = Nil THEN Nil
    ELSE [type |-> "*withStack", ptr |-> p,
          error |-> [type |-> "*withMessage", ptr |-> p, msg |-> msg, cause |-> e]]

IsApiError(e) == e.type = "apiError"

\* ErrFromExternalLib = errors.New("external lib error")
ErrFromExternalLib == fundamental(<<"external", " ", "lib", " ", "error">>, 0)

\* another errors.New with the same text: a distinct pointer
ErrOtherLib == fundamental(<<"external", " ", "lib", " ", "error">>, -1)

----------------------------------------------------------------------------
(* fmt.Sprintf for a format of %s verbs and string arguments *)

RECURSIVE ExtraArgs(_, _)
\* the arguments args[n..] as fmt prints them in %!(EXTRA ...)
ExtraArgs(args, n) ==
    IF n > Len(args) THEN <<>>
    ELSE <<"string=">> \o args[n]
         \o (IF n < Len(args) THEN <<",", " ">> ELSE <<>>)
         \o ExtraArgs(args, n + 1)

RECURSIVE SprintfFrom(_, _, _, _)
\* format[i..] printed with args[n..] the arguments not yet consumed
SprintfFrom(format, i, args, n) ==
    IF i > Len(format)
    THEN IF n <= Len(args)
         THEN <<"%!(EXTRA", " ">> \o ExtraArgs(args, n) \o <<")">>
         ELSE <<>>
    ELSE IF format[i] = "%s"
         THEN (IF n <= Len(args) THEN args[n] ELSE <<"%!s(MISSING)">>)
              \o SprintfFrom(format, i + 1, args, n + 1)
         ELSE <<format[i]>> \o SprintfFrom(format, i + 1, args, n)

Sprintf(format, args) == SprintfFrom(format, 1, args, 1)

----------------------------------------------------------------------------
(* apiError methods *)

\* Unwrap of any error value: apiError.Unwrap returns e.err; *withStack and
\* *withMessage return what they wrap; *fundamental has no Unwrap method
Unwrap(e) ==
    CASE e.type = "apiError" -> e.err
      [] e.type = "*withStack" -> e.error
      [] e.type = "*withMessage" -> e.cause
      [] OTHER -> Nil

RECURSIVE ErrorString_NoCause(_)
\* a variant of Error that leaves the cause out of an apiError's text
ErrorString_NoCause(e) ==
    CASE e.type = "apiError" -> e.Message
      [] e.type = "*withStack" -> ErrorString_NoCause(e.error)
      [] e.type = "*withMessage" ->
            e.msg \o <<":", " ">> \o ErrorString_NoCause(e.cause)
      [] e.type = "*fundamental" -> e.msg
      [] OTHER -> <<"<nil>">>

RECURSIVE ErrorString(_)
\* e.Error(); for apiError: Sprintf("%s: %v", e.Message, e.err) or e.Message
ErrorString(e) ==
    CASE e.type = "apiError" ->
            IF e.err # Nil
            THEN e.Message \o <<":", " ">> \o ErrorString(e.err)
            ELSE e.Message
      [] e.type = "*withStack" -> ErrorString(e.error)
      [] e.type = "*withMessage" -> e.msg \o <<":", " ">> \o ErrorString(e.cause)
      [] e.type = "*fundamental" -> e.msg
      [] OTHER -> <<"<nil>">>

\* a variant of F that builds its result from Code and Message alone
F_DropsErrno(e, a) ==
    [ret |-> apiError(e.Code, Sprintf(e.Message, a), 0, Nil), recv |-> e]

\* a variant of Wrap with a pointer receiver
Wrap_PointerReceiver(e, cause) ==
    [ret |-> [e EXCEPT !.err = cause], recv |-> [e EXCEPT !.err = cause]]

\* func (e apiError) F(a ...any) apiError
\* ret is the value returned; recv is the caller's receiver after the call
\* (a value receiver: the method assigns to its own copy)
F(e, a) ==
    [ret |-> [e EXCEPT !.Message = Sprintf(e.Message, a)], recv |-> e]

\* func (e apiError) Wrap(err error) error
Wrap(e, cause) ==
    [ret |-> [e EXCEPT !.err = cause], recv |-> e]

RECURSIVE ErrorsIs(_, _)
RECURSIVE Is(_, _)

\* a variant of Is that matches on the rendered text
Is_ByMessage(e, target) ==
    IF IsApiError(target)
    THEN e.Message = target.Message
    ELSE ErrorsIs(e.err, target)

\* func (e apiError) Is(target error) bool
Is(e, target) ==
    IF IsApiError(target)
    THEN e.errno = target.errno
    ELSE ErrorsIs(e.err, target)

\* errors.Is(err, target): walk the chain of err; at each error x, true when
\* x == target or x has an Is method and x.Is(target)
ErrorsIs(e, target) ==
    IF e = Nil \/ target = Nil THEN e = target
    ELSE IF e = target THEN TRUE
    ELSE IF IsApiError(e) /\ Is(e, target) THEN TRUE
    ELSE IF Unwrap(e) = Nil THEN FALSE
    ELSE ErrorsIs(Unwrap(e), target)

RECURSIVE ErrorsAs_Deepest(_)
\* a variant of errors.As that keeps looking below the first apiError
ErrorsAs_Deepest(e) ==
    IF e = Nil THEN [ok |-> FALSE, val |-> ZeroApiError]
    ELSE IF IsApiError(e) /\ ~ErrorsAs_Deepest(Unwrap(e)).ok
         THEN [ok |-> TRUE, val |-> e]
    ELSE ErrorsAs_Deepest(Unwrap(e))

RECURSIVE ErrorsAs(_)
\* errors.As(err, &apiErr): ok and the value assigned to apiErr
ErrorsAs(e) ==
    IF e = Nil THEN [ok |-> FALSE, val |-> ZeroApiError]
    ELSE IF IsApiError(e) THEN [ok |-> TRUE, val |-> e]
    ELSE ErrorsAs(Unwrap(e))

----------------------------------------------------------------------------
(* Package-level variables *)

Thing == <<"thing">>
User == <<"user">>

FmtNotFound == <<"%s", " ", "not", " ", "found">>
FmtInvalidId == <<"invalid", " ", "%s", " ", "id">>
FmtIdTooHigh == <<"%s", " ", "id", " ", "too", " ", "high">>
MsgWrapped == <<"this", " ", "is", " ", "a", " ", "wrapped", " ", "error">>

\* the NewError calls of the package's var declarations, in source order
PackageVars ==
    << [code |-> StatusNotFound, message |-> FmtNotFound],
       [code |-> StatusBadRequest, message |-> FmtInvalidId],
       [code |-> StatusBadRequest, message |-> FmtIdTooHigh] >>

Initialized == Len(templates) >= Len(PackageVars)

ErrNotFound == templates[1]
ErrInvalidId == templates[2]
ErrThingIdTooHigh == templates[3]

----------------------------------------------------------------------------
(* Database, Service, API *)

\* func externalLibGet() error
externalLibGet == ErrFromExternalLib

\* func (Database) GetThingById(id int) error
GetThingById(id) ==
    IF id < 0
    THEN F(ErrInvalidId, <<Thing>>).ret
    ELSE IF externalLibGet # Nil
         THEN Wrap(F(ErrNotFound, <<Thing>>).ret, externalLibGet).ret
         ELSE Nil

\* a variant of DoSomethingWithThing with the business rule id > 10
DoSomethingWithThing_OffByOne(id, p) ==
    IF id > 10
    THEN F(ErrThingIdTooHigh, <<Thing>>).ret
    ELSE LET e == GetThingById(id)
         IN  IF e # Nil
             THEN IF ErrorsIs(e, ErrInvalidId)
                  THEN ErrorsWrap(e, MsgWrapped, p)
                  ELSE e
             ELSE Nil

\* func (s Service) DoSomethingWithThing(id int) error; p is the address the
\* call of errors.Wrap allocates at
DoSomethingWithThing(id, p) ==
    IF id >= 10
    THEN F(ErrThingIdTooHigh, <<Thing>>).ret
    ELSE LET e == GetThingById(id)
         IN  IF e # Nil
             THEN IF ErrorsIs(e, ErrInvalidId)
                  THEN ErrorsWrap(e, MsgWrapped, p)
                  ELSE e
             ELSE Nil

NoBody == [type |-> "none"]

\* json.MarshalIndent(apiErr, "", "  "): the exported fields under their tags
Marshal(e) == [code |-> e.Code, message |-> e.Message]

\* a variant of respondWithError that sends an unknown error's text
respondWithError_Leak(e) ==
    LET as == ErrorsAs(e)
    IN  IF as.ok
        THEN [path |-> "apiError",
              log |-> <<"Internal error:", " ">> \o ErrorString(e),
              body |-> Marshal(as.val)]
        ELSE [path |-> "unknown",
              log |-> <<"Responding with unknown error:", " ">> \o ErrorString(e),
              body |-> [code |-> 500, message |-> ErrorString(e)]]

\* func respondWithError(err error): the line logged and the body sent.
\* The stack that %+v adds to the log line of an unknown error is left out.
respondWithError(e) ==
    LET as == ErrorsAs(e)
    IN  IF as.ok
        THEN [path |-> "apiError",
              log |-> <<"Internal error:", " ">> \o ErrorString(e),
              body |-> Marshal(as.val)]
        ELSE [path |-> "unknown",
              log |-> <<"Responding with unknown error:", " ">> \o ErrorString(e),
              body |-> NoBody]

\* func (a API) DoSomethingWithThingHandler(id int)
DoSomethingWithThingHandler(id, p) ==
    LET e == DoSomethingWithThing(id, p)
    IN  IF e # Nil
        THEN respondWithError(e)
        ELSE [path |-> "ok", log |-> <<>>, body |-> NoBody]

----------------------------------------------------------------------------------------------------------------------------------------
(* Inputs *)

Threads == 1 .. NumThreads
Ids == (0 - MaxNegId) .. MaxId

\* argument lists passed to F: none, one, another one, one too many
ArgLists == {<<>>, <<Thing>>, <<User>>, <<Thing, User>>}

\* NewError calls made after the package's own: the code and the format of
\* ErrNotFound once more
ExtraVars == { [code |-> StatusNotFound, message |-> FmtNotFound] }

RECURSIVE Depth(_)
\* the number of layers of an error chain; errors.Wrap adds one layer
Depth(e) ==
    CASE e.type = "apiError" -> 1 + Depth(e.err)
      [] e.type = "*withStack" -> 1 + Depth(e.error.cause)
      [] e.type = "*fundamental" -> 1
      [] OTHER -> 0

\* the apiError values a caller has at hand to call Wrap on: a template
\* formatted, and the apiError found in err
Receivers ==
    {F(templates[i], <<Thing>>).ret : i \in DOMAIN templates}
    \cup (IF ErrorsAs(err).ok THEN {ErrorsAs(err).val} ELSE {})

\* the error values a caller has at hand to match against
Targets ==
    {templates[i] : i \in DOMAIN templates}
    \cup {F(templates[i], <<User>>).ret : i \in DOMAIN templates}
    \cup {ErrFromExternalLib, ErrOtherLib, Nil, Unwrap(err), Unwrap(ErrorsAs(err).val)}

NoCall == [op |-> "none", a |-> Nil, b |-> Nil, out |-> Nil, recv |-> Nil]

Call(op, a, b, out, recv) == [op |-> op, a |-> a, b |-> b, out |-> out, recv |-> recv]

----------------------------------------------------------------------------
(* State machine *)

Init ==
    /\ errNo = 0
    /\ templates = <<>>
    /\ err = Nil
    /\ heap = 1
    /\ last = NoCall
    /\ pc = [t \in Threads |-> "idle"]
    /\ local = [t \in Threads |-> ZeroApiError]

\* a variant of NewError that forgets to advance the counter
NewError_NoIncrement(code, message) ==
    LET e == apiError(code, message, errNo, Nil)
    IN  /\ errNo' = errNo
        /\ templates' = Append(templates, e)
        /\ last' = Call("NewError", Nil, Nil, e, Nil)

\* func NewError(code int, message string) apiError, run without interruption.
\* errNo is a uint64; MaxTemplates keeps it far below 2^64, where it wraps.
NewError(code, message) ==
    LET e == apiError(code, message, errNo, Nil)
    IN  /\ errNo' = errNo + 1
        /\ templates' = Append(templates, e)
        /\ last' = Call("NewError", Nil, Nil, e, Nil)

\* the package's var declarations run in order before main
PackageInit ==
    /\ ~Initialized
    /\ NewError(PackageVars[Len(templates) + 1].code,
                PackageVars[Len(templates) + 1].message)
    /\ UNCHANGED <<err, heap, pc, local>>

CallNewError ==
    /\ Initialized
    /\ Len(templates) < MaxTemplates
    /\ \E in \in ExtraVars : NewError(in.code, in.message)
    /\ UNCHANGED <<err, heap, pc, local>>

\* T.F(a...) on a package variable T
CallF ==
    /\ Initialized
    /\ \E i \in DOMAIN templates, a \in ArgLists :
          LET r == F(templates[i], a)
          IN  /\ templates' = [templates EXCEPT ![i] = r.recv]
              /\ last' = Call("F", templates[i], a, r.ret, r.recv)
    /\ UNCHANGED <<errNo, err, heap, pc, local>>

\* err = e.Wrap(c)
CallWrap ==
    /\ Initialized
    /\ \E e \in Receivers, c \in {err, ErrFromExternalLib, Nil} :
          /\ Depth(c) < MaxDepth
          /\ LET r == Wrap(e, c)
             IN  /\ err' = r.ret
                 /\ last' = Call("Wrap", e, c, r.ret, r.recv)
    /\ UNCHANGED <<errNo, templates, heap, pc, local>>

\* err = externalLibGet(), or another library's error
CallExternal ==
    /\ Initialized
    /\ \E c \in {externalLibGet, ErrOtherLib} :
          /\ err' = c
          /\ last' = Call("External", Nil, Nil, c, Nil)
    /\ UNCHANGED <<errNo, templates, heap, pc, local>>

\* err = errors.Wrap(err, "this is a wrapped error")
CallErrorsWrap ==
    /\ Initialized
    /\ err # Nil
    /\ heap <= MaxHeap
    /\ Depth(err) < MaxDepth
    /\ err' = ErrorsWrap(err, MsgWrapped, heap)
    /\ heap' = heap + 1
    /\ last' = Call("errors.Wrap", err, MsgWrapped, err', Nil)
    /\ UNCHANGED <<errNo, templates, pc, local>>

\* errors.As(err, &apiErr); apiErr.Is(target)
CallIs ==
    /\ Initialized
    /\ ErrorsAs(err).ok
    /\ \E target \in Targets :
          last' = Call("Is", ErrorsAs(err).val, target,
                       Is(ErrorsAs(err).val, target), Nil)
    /\ UNCHANGED <<errNo, templates, err, heap, pc, local>>

\* errors.Is(err, target)
CallErrorsIs ==
    /\ Initialized
    /\ \E target \in Targets :
          last' = Call("errors.Is", err, target, ErrorsIs(err, target), Nil)
    /\ UNCHANGED <<errNo, templates, err, heap, pc, local>>

\* var apiErr apiError; errors.As(err, &apiErr)
CallErrorsAs ==
    /\ Initialized
    /\ last' = Call("errors.As", err, Nil, ErrorsAs(err), Nil)
    /\ UNCHANGED <<errNo, templates, err, heap, pc, local>>

\* err.Error()
CallError ==
    /\ Initialized
    /\ err # Nil
    /\ last' = Call("Error", err, Nil, ErrorString(err), Nil)
    /\ UNCHANGED <<errNo, templates, err, heap, pc, local>>

\* respondWithError(err)
CallRespondWithError ==
    /\ Initialized
    /\ err # Nil
    /\ last' = Call("respondWithError", err, Nil, respondWithError(err), Nil)
    /\ UNCHANGED <<errNo, templates, err, heap, pc, local>>

\* a client requests /things/{id}; the handler's error value is dropped when
\* it returns, and its methods have value receivers, so only the response
\* remains
CallHandler ==
    /\ Initialized
    /\ \E id \in Ids :
          last' = Call("Handler", id, Nil, DoSomethingWithThingHandler(id, heap), Nil)
    /\ UNCHANGED <<errNo, templates, err, heap, pc, local>>

Next ==
    \/ PackageInit
    \/ CallNewError
    \/ CallF
    \/ CallWrap
    \/ CallExternal
    \/ CallErrorsWrap
    \/ CallIs
    \/ CallErrorsIs
    \/ CallErrorsAs
    \/ CallError
    \/ CallRespondWithError
    \/ CallHandler

Spec == Init /\ [][Next]_vars

----------------------------------------------------------------------------
(* NewError called from several threads at once.  The read of errNo at     *)
(* line 59 is an ordinary read, the increment at line 61 is atomic, and    *)
(* nothing orders the two against another thread's.                        *)

Started == Len(templates) + Cardinality({t \in Threads : pc[t] # "idle"})

\* lines 56-60: err := apiError{code, message, errno: errNo}
NewErrorRead(t) ==
    /\ pc[t] = "idle"
    /\ Started < MaxTemplates
    /\ \E in \in ExtraVars :
          local' = [local EXCEPT ![t] = apiError(in.code, in.message, errNo, Nil)]
    /\ pc' = [pc EXCEPT ![t] = "add"]
    /\ UNCHANGED <<errNo, templates, err, heap, last>>

\* line 61: atomic.AddUint64(&errNo, 1)
NewErrorAdd(t) ==
    /\ pc[t] = "add"
    /\ errNo' = errNo + 1
    /\ pc' = [pc EXCEPT ![t] = "return"]
    /\ UNCHANGED <<templates, err, heap, last, local>>

\* line 62: return err
NewErrorReturn(t) ==
    /\ pc[t] = "return"
    /\ templates' = Append(templates, local[t])
    /\ pc' = [pc EXCEPT ![t] = "idle"]
    /\ UNCHANGED <<errNo, err, heap, last, local>>

NextConc ==
    \E t \in Threads :
        \/ NewErrorRead(t)
        \/ NewErrorAdd(t)
        \/ NewErrorReturn(t)

SpecConc == Init /\ [][NextConc]_vars

----------------------------------------------------------------------------
(* Properties *)

RECURSIVE ChainSeq(_)
\* the cause chain of e from the top, as repeated Unwrap walks it
ChainSeq(e) == IF e = Nil THEN <<>> ELSE <<e>> \o ChainSeq(Unwrap(e))

ChainSet(e) == {ChainSeq(e)[i] : i \in DOMAIN ChainSeq(e)}

ApiErrorsIn(e) == {x \in ChainSet(e) : IsApiError(x)}

\* the position in ChainSeq(e) of the first apiError, 0 when there is none
FirstApiError(e) ==
    LET at == {i \in DOMAIN ChainSeq(e) : IsApiError(ChainSeq(e)[i])}
    IN  IF at = {} THEN 0 ELSE CHOOSE i \in at : \A j \in at : i <= j

\* the text each error of a chain contributes: *withStack adds none
OwnText(x) ==
    CASE x.type = "apiError" -> <<x.Message>>
      [] x.type = "*withMessage" -> <<x.msg>>
      [] x.type = "*fundamental" -> <<x.msg>>
      [] OTHER -> <<>>

RECURSIVE Flatten(_)
Flatten(ss) == IF ss = <<>> THEN <<>> ELSE Head(ss) \o Flatten(Tail(ss))

RECURSIVE JoinColon(_)
\* the strings of ts joined by ": "
JoinColon(ts) ==
    IF ts = <<>> THEN <<>>
    ELSE IF Len(ts) = 1 THEN ts[1]
    ELSE ts[1] \o <<":", " ">> \o JoinColon(Tail(ts))

ChainText(e) ==
    JoinColon(Flatten([i \in DOMAIN ChainSeq(e) |-> OwnText(ChainSeq(e)[i])]))

\* C1: under concurrent NewError calls, no two calls return the same identity.
C1_NoDuplicateIdentity ==
    \A i, j \in DOMAIN templates :
        i # j => templates[i].errno # templates[j].errno

\* C2: under sequential NewError calls, each new template's identity is
\* strictly greater than that of every template created before it, and the
\* counter stays above every identity handed out, so none is reused.
C2_StrictlyIncreasing ==
    /\ \A i, j \in DOMAIN templates :
          i < j => templates[i].errno < templates[j].errno
    /\ \A i \in DOMAIN templates : templates[i].errno < errNo

C2_Witness ==
    /\ last.op = "NewError"
    /\ Len(templates) > Len(PackageVars)
    /\ templates[Len(templates)].Message = templates[1].Message

\* C3: F on a template T returns an apiError with T's identity and T's code
\* and with no cause, whatever the arguments.
C3_FormatKeepsIdentity ==
    last.op = "F" =>
        /\ last.out.errno = last.a.errno
        /\ last.out.Code = last.a.Code
        /\ last.out.err = Nil

C3_Witness ==
    /\ last.op = "F"
    /\ last.b = <<User>>
    /\ last.a.errno > 0
    /\ last.out.Message # last.a.Message
    /\ last.out.Message # F(last.a, <<Thing>>).ret.Message

\* C4: Wrap(e, c) returns an apiError with e's identity, code and message
\* whose Unwrap is c, and leaves e as it was.
C4_WrapKeepsFields ==
    last.op = "Wrap" =>
        /\ last.out.errno = last.a.errno
        /\ last.out.Code = last.a.Code
        /\ last.out.Message = last.a.Message
        /\ Unwrap(last.out) = last.b
        /\ last.recv = last.a

C4_Witness ==
    /\ last.op = "Wrap"
    /\ last.a.err # Nil
    /\ last.b # Nil
    /\ last.b # last.a.err

\* what C5 claims of Is: e matches target when some apiError of e's chain
\* has target's identity, or some other error of the chain is target
ClaimedIs(e, target) ==
    \E x \in ChainSet(e) :
        IF IsApiError(x)
        THEN IsApiError(target) /\ x.errno = target.errno
        ELSE x = target

\* C5 as claimed: e.Is(target) is true iff target is an apiError with e's
\* identity, or Is is recursively true for e's cause.
C5_IsRecursesIntoCause ==
    (last.op = "Is" /\ last.b # Nil) =>
        (last.out <=> ClaimedIs(last.a, last.b))

\* C5 amended: e.Is(target) is true iff target is an apiError with e's
\* identity, or target is not an apiError and some error of e's cause chain
\* is target itself; for an apiError target the cause is not consulted.
C5_IsShallowOnApiError ==
    (last.op = "Is" /\ last.b # Nil) =>
        (last.out <=>
            IF IsApiError(last.b)
            THEN last.b.errno = last.a.errno
            ELSE last.b \in ChainSet(last.a.err))

C5_Witness ==
    /\ last.op = "Is"
    /\ IsApiError(last.b)
    /\ last.out = FALSE
    /\ \E x \in ApiErrorsIn(last.a.err) : x.errno = last.b.errno

\* C6: errors.Is(err, T) for an apiError T is true iff the cause chain of err
\* holds an apiError with T's identity, whatever the messages are.
C6_MatchByIdentity ==
    (last.op = "errors.Is" /\ IsApiError(last.b)) =>
        (last.out <=> \E x \in ApiErrorsIn(last.a) : x.errno = last.b.errno)

C6_Witness ==
    /\ last.op = "errors.Is"
    /\ IsApiError(last.b)
    /\ last.out = TRUE
    /\ ~IsApiError(last.a)
    /\ \A x \in ApiErrorsIn(last.a) : x.Message # last.b.Message
    /\ \E i \in DOMAIN templates :
          /\ templates[i].Message = last.b.Message
          /\ templates[i].Code = last.b.Code
          /\ templates[i].errno # last.b.errno

\* C7: errors.As(err, &apiErr) is true iff the cause chain of err holds an
\* apiError, and then apiErr is the first one from the top; otherwise apiErr
\* keeps its zero value.
C7_ClassifyFirst ==
    last.op = "errors.As" =>
        /\ last.out.ok <=> ApiErrorsIn(last.a) # {}
        /\ last.out.ok => last.out.val = ChainSeq(last.a)[FirstApiError(last.a)]
        /\ ~last.out.ok => last.out.val = ZeroApiError

C7_Witness ==
    /\ last.op = "errors.As"
    /\ last.out.ok
    /\ Cardinality({x.errno : x \in ApiErrorsIn(last.a)}) > 1

\* C8: Error() of an apiError is its message alone when it has no cause, and
\* otherwise its message, ": " and the cause's text, down the whole chain.
C8_MessageChain ==
    (last.op = "Error" /\ IsApiError(last.a)) =>
        /\ last.out = ChainText(last.a)
        /\ last.a.err = Nil => last.out = last.a.Message
        /\ last.a.err # Nil =>
              last.out = last.a.Message \o <<":", " ">> \o ChainText(last.a.err)

C8_Witness ==
    /\ last.op = "Error"
    /\ last.a = Wrap(F(ErrNotFound, <<Thing>>).ret, ErrFromExternalLib).ret
    /\ last.out = <<"thing", " ", "not", " ", "found", ":", " ",
                    "external", " ", "lib", " ", "error">>

\* the body C9 expects for a request id
ExpectedBody(id) ==
    IF id >= 10
    THEN [code |-> 400, message |-> <<"thing", " ", "id", " ", "too", " ", "high">>]
    ELSE IF id >= 0
    THEN [code |-> 404, message |-> <<"thing", " ", "not", " ", "found">>]
    ELSE [code |-> 400, message |-> <<"invalid", " ", "thing", " ", "id">>]

\* C9: a request for id ends with the body the id alone determines.
C9_BodyById ==
    last.op = "Handler" => last.out.body = ExpectedBody(last.a)

C9_Witness ==
    /\ last.op = "Handler"
    /\ last.a < 0
    /\ last.out.body = [code |-> 400, message |-> <<"invalid", " ", "thing", " ", "id">>]
    /\ last.out.log = <<"Internal error:", " ">> \o MsgWrapped
                        \o <<":", " ", "invalid", " ", "thing", " ", "id">>
    /\ Len(templates) > Len(PackageVars)

\* C10: respondWithError sends a {code, message} body iff the chain of the
\* error holds an apiError; an opaque error takes the unknown-error path and
\* no body is made of it.
C10_BodyIffClassified ==
    last.op = "respondWithError" =>
        /\ last.out.body # NoBody <=> ApiErrorsIn(last.a) # {}
        /\ ApiErrorsIn(last.a) = {} =>
              (last.out.path = "unknown" /\ last.out.body = NoBody)
        /\ ApiErrorsIn(last.a) # {} =>
              last.out.body = Marshal(ChainSeq(last.a)[FirstApiError(last.a)])

C10_Witness ==
    /\ last.op = "respondWithError"
    /\ last.a.type = "*withStack"
    /\ ApiErrorsIn(last.a) = {}
    /\ last.out.path = "unknown"

====
